---- MODULE Spec2Model ----
(***************************************************************************)
(* The exercise view (IdeComponent), the Protocols filter view and the     *)
(* lesson navigation of the levelup tutorial site, as state machines.      *)
(*                                                                         *)
(* JavaScript strings that the code inspects are sequences of one-letter   *)
(* strings; JavaScript values that may be undefined or null are records    *)
(* tagged with their type.                                                 *)
(***************************************************************************)
EXTENDS Integers, Sequences, FiniteSets, TLC

VARIABLES
    \* IdeComponent: React state (IdeComponent.tsx 19-24)
    tries, solutionViewer, showSolutionButton, completedExerciseNumber, isModalOpen,
    \* IdeComponent: observation of the run: the arguments of the last two
    \* onComplete calls, the calls of the effect, the last handler run
    notified, modalSignals, lastOp, streak,
    \* IdeComponent: more observation: incorrect submissions since the last
    \* correct submission or reveal click, whether the solution view has been
    \* shown, the argument of the last handleSolutionButtonClick call
    incorrectSince, solutionSeen, lastReveal,
    \* IdeComponent: the calls made since the last render, the number of
    \* handler runs they come from, and whether the effect of lines 66-70 is
    \* scheduled
    ideQueue, batched, effectPending,
    \* IdeComponent: whether a correct submission was handled since the last
    \* render
    submittedCorrect,
    \* Protocols: React state, its update queue, the last value given per field
    \* and the number of updaters the last render processed
    searchParams, paramQueue, lastCategory, lastNetwork, lastBatch,
    \* Protocols: the fetched content and the loading flag, the calls the fetch
    \* has queued for the next render, the course of the fetch, and whether
    \* the effect of lines 68-75 is scheduled
    protocolData, isLoading, fetchQueue, fetchStatus, fetchCount, fetched,
    fetchEffectPending,
    \* LessonNavigation: the fetched list, the prop, and the outcome
    data, lessonId, pagination,
    \* exercise content lookup: the two mappings, the keys, and the outcome
    codeSolutions, codeExercises, lessonKey, exerciseProp, lookup,
    \* exercise content lookup: whether the JavaScript runtime defines
    \* Object.groupBy
    hasGroupBy

ideVars == <<tries, solutionViewer, showSolutionButton, completedExerciseNumber,
             isModalOpen, notified, modalSignals, lastOp, streak,
             incorrectSince, solutionSeen, lastReveal, ideQueue, batched,
             effectPending, submittedCorrect>>
filterVars == <<searchParams, paramQueue, lastCategory, lastNetwork, lastBatch>>
fetchVars == <<protocolData, isLoading, fetchQueue, fetchStatus, fetchCount,
               fetched, fetchEffectPending>>
protocolVars == <<filterVars, fetchVars>>
navVars == <<data, lessonId, pagination>>
lookupVars == <<codeSolutions, codeExercises, lessonKey, exerciseProp, lookup,
                hasGroupBy>>
vars == <<ideVars, protocolVars, navVars, lookupVars>>

----------------------------------------------------------------------------
(* Bounds of the model *)

\* exercise names "exercise1" .. "exercise<MaxExercise>" are submitted
MaxExercise == 5
\* incorrect submissions stop once the attempt counter has reached MaxTries
MaxTries == 4
\* filter changes queued before a render of the Protocols view
MaxQueue == 3
\* lessons in the fetched list
MaxLessons == 3
\* handler runs of the exercise view between two renders
MaxBatch == 2

----------------------------------------------------------------------------
(* JavaScript values *)

JsString(s) == [t |-> "string", v |-> s]
JsUndefined == [t |-> "undefined"]
JsNull == [t |-> "null"]

DigitChars == <<"0", "1", "2", "3", "4", "5", "6", "7", "8", "9">>
IsDigit(c) == \E d \in 1..10 : DigitChars[d] = c
DigitValue(c) == (CHOOSE d \in 1..10 : DigitChars[d] = c) - 1

\* the letters that stand for ten to fifteen in a hexadecimal numeral
HexLower == <<"a", "b", "c", "d", "e", "f">>
HexUpper == <<"A", "B", "C", "D", "E", "F">>
IsHexDigit(c) ==
    IsDigit(c) \/ \E d \in 1..6 : HexLower[d] = c \/ HexUpper[d] = c
HexValue(c) ==
    IF IsDigit(c) THEN DigitValue(c)
    ELSE 9 + (CHOOSE d \in 1..6 : HexLower[d] = c \/ HexUpper[d] = c)

\* StrWhiteSpaceChar: the white space and line terminator letters parseInt
\* skips; a letter outside ASCII (and the vertical tab) is written by its
\* code point
WhiteSpace ==
    {" ", "\t", "\n", "\f", "\r", "U+000B", "U+00A0", "U+1680", "U+2000",
     "U+2001", "U+2002", "U+2003", "U+2004", "U+2005", "U+2006", "U+2007",
     "U+2008", "U+2009", "U+200A", "U+2028", "U+2029", "U+202F", "U+205F",
     "U+3000", "U+FEFF"}

\* the decimal numeral of n >= 0, as a sequence of letters
RECURSIVE Numeral(_)
Numeral(n) ==
    IF n < 10 THEN <<DigitChars[n + 1]>>
    ELSE Numeral(n \div 10) \o <<DigitChars[(n % 10) + 1]>>

\* does pat occur in s at position i
OccursAt(s, pat, i) ==
    /\ i + Len(pat) - 1 <= Len(s)
    /\ \A j \in 1..Len(pat) : s[i + j - 1] = pat[j]

\* String.prototype.replace(pat, rep) with a string pattern: the first
\* occurrence only is replaced
StringReplace(s, pat, rep) ==
    IF \E i \in 1..(Len(s) + 1) : OccursAt(s, pat, i)
    THEN LET i == CHOOSE k \in 1..(Len(s) + 1) :
                      /\ OccursAt(s, pat, k)
                      /\ \A m \in 1..(k - 1) : ~OccursAt(s, pat, m)
         IN SubSeq(s, 1, i - 1) \o rep \o SubSeq(s, i + Len(pat), Len(s))
    ELSE s

\* the value of the longest prefix of digits of s, read left to right
RECURSIVE DigitsPrefix(_, _)
DigitsPrefix(s, acc) ==
    IF s = <<>> \/ ~IsDigit(Head(s)) THEN acc
    ELSE DigitsPrefix(Tail(s), 10 * acc + DigitValue(Head(s)))

\* the same for hexadecimal digits
RECURSIVE HexDigitsPrefix(_, _)
HexDigitsPrefix(s, acc) ==
    IF s = <<>> \/ ~IsHexDigit(Head(s)) THEN acc
    ELSE HexDigitsPrefix(Tail(s), 16 * acc + HexValue(Head(s)))

RECURSIVE SkipWhiteSpace(_)
SkipWhiteSpace(s) ==
    IF s # <<>> /\ Head(s) \in WhiteSpace THEN SkipWhiteSpace(Tail(s)) ELSE s

\* parseInt(s) without a radix: leading white space is skipped and a sign
\* is read; after a "0x" or "0X" the numeral is hexadecimal, else decimal;
\* the digits are read up to the first letter that is no digit; NaN
\* (ok = FALSE) when there is no digit to read.  The value is exact: the
\* numerals read here stay far below 2^53.
ParseInt(s) ==
    LET t == SkipWhiteSpace(s)
        neg == t # <<>> /\ Head(t) = "-"
        u == IF t # <<>> /\ Head(t) \in {"-", "+"} THEN Tail(t) ELSE t
        hex == Len(u) >= 2 /\ u[1] = "0" /\ u[2] \in {"x", "X"}
        z == IF hex THEN SubSeq(u, 3, Len(u)) ELSE u
        none == z = <<>> \/ (IF hex THEN ~IsHexDigit(Head(z))
                                    ELSE ~IsDigit(Head(z)))
        magnitude == IF hex THEN HexDigitsPrefix(z, 0) ELSE DigitsPrefix(z, 0)
    IN IF none
       THEN [ok |-> FALSE, val |-> 0]
       ELSE [ok |-> TRUE, val |-> IF neg THEN 0 - magnitude ELSE magnitude]

\* a > b on JavaScript numbers, a possibly NaN: every comparison with NaN
\* is false
JsGreater(a, b) == a.ok /\ a.val > b

----------------------------------------------------------------------------
(* IdeComponent *)

(***************************************************************************)
(* A handler only calls state setters: React queues the calls and applies  *)
(* them when it next renders the component.  When the children call        *)
(* onSubmission, onClick or isClose is theirs and the scheduler's to       *)
(* decide, so a handler may run again before that render; it then is the   *)
(* handler of the same render and reads the same tries,                    *)
(* completedExerciseNumber and exercise.  The state variables hold the     *)
(* values of the last render; ideQueue holds the calls made since.  A      *)
(* render applies every queued call, and the handlers that run are those   *)
(* of the last render.                                                     *)
(***************************************************************************)

ExerciseWord == <<"e", "x", "e", "r", "c", "i", "s", "e">>

\* the values of the exercise prop: well-formed names, a name without a
\* number, a name with trailing letters, a name with a prefix, a name whose
\* number (six) is written after a tab and in hexadecimal, and the prop
\* left out
ExerciseProps ==
    {JsString(ExerciseWord \o Numeral(n)) : n \in 1..MaxExercise}
        \cup {JsString(ExerciseWord),
              JsString(ExerciseWord \o <<"2", "b">>),
              JsString(<<"m", "y">> \o ExerciseWord \o <<"3">>),
              JsString(ExerciseWord \o <<"\t", "0", "x", "6">>),
              JsUndefined}

\* the default value of the prop
ExerciseOrDefault(p) ==
    IF p = JsUndefined THEN ExerciseWord \o <<"1">> ELSE p.v

\* the threshold of the attempt counter above which the solution is offered
TriesLimit == 2
\* the value of the completion counter at which the lesson is finished
LessonLength == 5

\* a call made by a handler: a state setter or the onComplete prop
Call(op, n, b) == [op |-> op, n |-> n, b |-> b]

currentExerciseNumber(exercise) ==
    ParseInt(StringReplace(exercise, ExerciseWord, <<>>))

\* (variant: any numbered exercise advances the counter)
AdvancesAlways(cur, completed) == cur.ok
\* line 42: the completion counter advances for a strictly greater index
AdvancesCompletion(cur, completed) == JsGreater(cur, completed)

\* lines 40-48: the calls the handler makes for a correct submission
CorrectBranch(exercise, completed) ==
    LET cur == currentExerciseNumber(exercise)
    IN (IF AdvancesCompletion(cur, completed)
        THEN <<Call("onComplete", cur.val, FALSE),
               Call("setCompletedExerciseNumber", cur.val, FALSE)>>
        ELSE <<>>)
       \o <<Call("setSolutionViewer", 0, FALSE), Call("setTries", 0, FALSE)>>

\* lines 49-57: for an incorrect submission the handler queues an updater
\* that closes over the attempt counter of the render the handler is from
IncorrectBranch(capturedTries) ==
    <<Call("setTriesUpdater", capturedTries, FALSE)>>

submissionHandler(isCorrect, exercise, capturedTries, capturedCompleted) ==
    IF isCorrect THEN CorrectBranch(exercise, capturedCompleted)
    ELSE IncorrectBranch(capturedTries)

\* (variant: the attempt counter is not reset)
handleSolutionButtonClickKeepsTries(reveal) ==
    <<Call("toggleShowSolutionButton", 0, FALSE),
      Call("setSolutionViewer", 0, reveal)>>

\* lines 60-64
handleSolutionButtonClick(reveal) ==
    <<Call("toggleShowSolutionButton", 0, FALSE),
      Call("setSolutionViewer", 0, reveal),
      Call("setTries", 0, FALSE)>>

\* line 76
isClose == <<Call("setIsModalOpen", 0, FALSE)>>

\* the React state of the view as one record
IdeState ==
    [tries |-> tries, solutionViewer |-> solutionViewer,
     showSolutionButton |-> showSolutionButton,
     completedExerciseNumber |-> completedExerciseNumber,
     isModalOpen |-> isModalOpen]

\* lines 50-56: the updater computes from the captured counter, not from the
\* state it is given, and sets the reveal flag on its way
TriesUpdater(s, capturedTries) ==
    LET newTries == capturedTries + 1
    IN [s EXCEPT !.tries = newTries,
                 !.solutionViewer = IF newTries > TriesLimit THEN TRUE ELSE @]

\* the effect of one queued call on the state
ApplyCall(s, c) ==
    CASE c.op = "setTries" -> [s EXCEPT !.tries = c.n]
      [] c.op = "setTriesUpdater" -> TriesUpdater(s, c.n)
      [] c.op = "setSolutionViewer" -> [s EXCEPT !.solutionViewer = c.b]
      [] c.op = "toggleShowSolutionButton" ->
            [s EXCEPT !.showSolutionButton = ~@]
      [] c.op = "setCompletedExerciseNumber" ->
            [s EXCEPT !.completedExerciseNumber = c.n]
      [] c.op = "setIsModalOpen" -> [s EXCEPT !.isModalOpen = c.b]
      [] OTHER -> s

\* lines 50-56 when React runs the updater during the render instead of at
\* the setTries call: the counter is computed as before, the
\* setSolutionViewer(true) of the updater is queued behind the calls made
\* by the handlers
TriesUpdaterAtRender(s, capturedTries) ==
    [TriesUpdater(s, capturedTries) EXCEPT !.solutionViewer = s.solutionViewer]

\* the b field of a queued setTriesUpdater call tells that React runs the
\* updater during the render
AtRender(calls, atRender) ==
    [i \in DOMAIN calls |->
        IF calls[i].op = "setTriesUpdater"
        THEN [calls[i] EXCEPT !.b = atRender] ELSE calls[i]]

\* React processes the queued calls in the order they were made
RECURSIVE RenderQueued(_, _)
RenderQueued(s, calls) ==
    IF calls = <<>> THEN s
    ELSE LET c == Head(calls)
         IN RenderQueued(IF c.op = "setTriesUpdater" /\ c.b
                         THEN TriesUpdaterAtRender(s, c.n)
                         ELSE ApplyCall(s, c),
                         Tail(calls))

\* the render of the queued calls of the handler runs since the last render
RenderBatch(s, calls) ==
    LET late == \E i \in DOMAIN calls :
                    /\ calls[i].op = "setTriesUpdater"
                    /\ calls[i].b
                    /\ calls[i].n + 1 > TriesLimit
    IN [RenderQueued(s, calls) EXCEPT
            !.solutionViewer = IF late THEN TRUE ELSE @]

\* (variant: the effect has no dependency list and runs after every render)
DepsAlwaysChanged(before, after) == TRUE

\* line 70 (and line 75 of the Protocols view): React schedules an effect in
\* a render whose dependencies differ from those of the render before
DepsChanged(before, after) == after # before

\* lines 67-69: the calls of the effect
ModalEffect(completed) ==
    IF completed = LessonLength
    THEN <<Call("setIsModalOpen", 0, TRUE)>> ELSE <<>>

\* the arguments of the calls made to the onComplete prop
RECURSIVE Notifications(_)
Notifications(calls) ==
    IF calls = <<>> THEN <<>>
    ELSE (IF Head(calls).op = "onComplete" THEN <<Head(calls).n>> ELSE <<>>)
         \o Notifications(Tail(calls))

\* the last two entries of a sequence
Recent(seq) == IF Len(seq) <= 2 THEN seq ELSE SubSeq(seq, Len(seq) - 1, Len(seq))

\* the record of a handler run: what was asked, and the attempt counter of
\* the render the handler was from
Op(name, isCorrect, reveal) ==
    [name |-> name, isCorrect |-> isCorrect, reveal |-> reveal, tries |-> tries]

\* the history variables; a specification records those its properties
\* read and leaves the others as they are
AllHistory ==
    {"lastOp", "streak", "incorrectSince", "lastReveal", "notified",
     "solutionSeen"}

\* what a handler run adds to the recorded history
Observe(op, calls, record) ==
    /\ lastOp' = IF "lastOp" \in record THEN op ELSE lastOp
    /\ streak' =
          IF "streak" \notin record THEN streak
          ELSE IF op.name = "submit" /\ ~op.isCorrect /\ streak >= 0
               THEN streak + 1 ELSE -1
    /\ incorrectSince' =
          CASE "incorrectSince" \notin record -> incorrectSince
            [] op.name = "submit" /\ ~op.isCorrect -> incorrectSince + 1
            [] op.name = "submit" /\ op.isCorrect -> 0
            [] op.name = "toggleReveal" -> 0
            [] OTHER -> incorrectSince
    /\ lastReveal' =
          IF "lastReveal" \in record /\ op.name = "toggleReveal"
          THEN op.reveal ELSE lastReveal
    /\ notified' =
          IF "notified" \in record
          THEN Recent(notified \o Notifications(calls)) ELSE notified
    /\ submittedCorrect' =
          (submittedCorrect \/ (op.name = "submit" /\ op.isCorrect))

\* a handler runs: its calls are queued, onComplete is called at once
HandlerRun(calls, op, record) ==
    /\ batched < MaxBatch
    /\ ideQueue' = ideQueue \o calls
    /\ batched' = batched + 1
    /\ Observe(op, calls, record)
    /\ UNCHANGED <<tries, solutionViewer, showSolutionButton,
                   completedExerciseNumber, isModalOpen, modalSignals,
                   solutionSeen, effectPending>>
    /\ UNCHANGED <<protocolVars, navVars, lookupVars>>

\* lines 79, 98-108, 142-149: the editor and the submit button are rendered
\* in the code view only
SubmitShown == ~showSolutionButton
\* lines 124-139: the Answers button, disabled while the reveal flag is false
AnswersEnabled == ~showSolutionButton /\ solutionViewer
\* lines 79-97: the Code button of the solution view
CodeButtonShown == showSolutionButton

\* lines 105-107, 146-148: a child calls onSubmission.  React runs the
\* updater of an incorrect submission at the setTries call only if nothing
\* is queued for the view, and not always then
Submit(isCorrect, atRender, record) ==
    /\ SubmitShown
    /\ isCorrect \/ tries < MaxTries
    /\ ideQueue # <<>> => atRender
    /\ isCorrect => atRender
    /\ HandlerRun(AtRender(submissionHandler(isCorrect,
                                             ExerciseOrDefault(exerciseProp),
                                             tries, completedExerciseNumber),
                           atRender),
                  Op("submit", isCorrect, FALSE), record)

\* line 136
ClickAnswers(record) ==
    /\ AnswersEnabled
    /\ HandlerRun(handleSolutionButtonClick(TRUE),
                  Op("toggleReveal", FALSE, TRUE), record)

\* line 85
ClickCode(record) ==
    /\ CodeButtonShown
    /\ HandlerRun(handleSolutionButtonClick(FALSE),
                  Op("toggleReveal", FALSE, FALSE), record)

\* line 76: the Modal child calls isClose
CloseModal(record) ==
    HandlerRun(isClose, Op("closeModal", FALSE, FALSE), record)
----------------------------------------------------------------------------
(* Protocols: the category and level filters *)

\* the level list of the constants module; the first entry is the initial
\* level
CHALLENGE_LEVEL_LIST == <<"Beginner", "Intermediate", "Advanced">>

\* the values the Category and LevelSelect children hand to onChange; the
\* handlers accept any value
CategoryValues == {"All categories", "DeFi", "Gaming"}
NetworkValues == {CHALLENGE_LEVEL_LIST[i] : i \in 1..Len(CHALLENGE_LEVEL_LIST)}
ParamStates == [category : CategoryValues, network : NetworkValues]

\* lines 53-56
InitialSearchParams ==
    [category |-> "All categories", network |-> CHALLENGE_LEVEL_LIST[1]]

\* (variant: the new state is built from the searchParams of the render the
\* handler is from instead of the state passed to the updater)
handleChangeCategoryStale(value) ==
    [pre \in ParamStates |-> [searchParams EXCEPT !.category = value]]

\* lines 77-82: the updater handed to setSearchParams, a function of the
\* state React passes to it
handleChangeCategory(value) ==
    [pre \in ParamStates |-> [pre EXCEPT !.category = value]]

\* lines 84-89
handleChangeNetwork(value) ==
    [pre \in ParamStates |-> [pre EXCEPT !.network = value]]

\* React applies the queued updaters in order, each to the result of the
\* one before
RECURSIVE ApplyUpdaters(_, _)
ApplyUpdaters(s, q) ==
    IF q = <<>> THEN s ELSE ApplyUpdaters(Head(q)[s], Tail(q))

\* the documents the content fetch may deliver: any JSON value; here lists
\* of lesson names
FetchPayloads == {<<>>, <<"lesson-a", "lesson-b">>}

\* lines 58-59
InitialData == <<>>
InitialLoading == TRUE

\* (variant: the loading flag is cleared when the fetch fails too)
OnFetchRejectedClearsLoading == <<Call("setLoading", 0, FALSE)>>

\* lines 69-74: the promise chain has no rejection handler, so a failed
\* fetch (or a body that is no JSON) makes no call
OnFetchRejected == <<>>

\* lines 71-74: the calls of the fulfilment handler
OnFetchFulfilled(payload) ==
    <<[op |-> "setData", n |-> 0, b |-> FALSE, payload |-> payload],
      Call("setLoading", 0, FALSE)>>

\* the effect of the queued setData and setLoading calls on <<data, isLoading>>
RECURSIVE ApplyFetchCalls(_, _)
ApplyFetchCalls(s, calls) ==
    IF calls = <<>> THEN s
    ELSE LET c == Head(calls)
         IN ApplyFetchCalls(
                CASE c.op = "setData" -> [s EXCEPT !.data = c.payload]
                  [] c.op = "setLoading" -> [s EXCEPT !.isLoading = c.b]
                  [] OTHER -> s,
                Tail(calls))

\* (variant: the effect lists the fetched data as its dependency)
FetchEffectDepsOnData(content) == <<content>>

\* line 75: the dependency list of the effect is empty
FetchEffectDeps(content) == <<>>

\* lines 68-75: React runs the scheduled effect, which issues the fetch
MountEffect ==
    /\ fetchEffectPending
    /\ fetchEffectPending' = FALSE
    /\ fetchStatus' = "pending"
    /\ fetchCount' = fetchCount + 1
    /\ UNCHANGED <<protocolData, isLoading, fetchQueue, fetched, filterVars,
                   ideVars, navVars, lookupVars>>

\* the fetch and res.json() succeed: the fulfilment handler runs
FetchFulfilled(payload) ==
    /\ fetchStatus = "pending"
    /\ fetchStatus' = "fulfilled"
    /\ fetched' = payload
    /\ fetchQueue' = fetchQueue \o OnFetchFulfilled(payload)
    /\ UNCHANGED <<protocolData, isLoading, fetchCount, fetchEffectPending,
                   filterVars, ideVars, navVars, lookupVars>>

\* the fetch or res.json() fails: the promise is rejected
FetchRejected ==
    /\ fetchStatus = "pending"
    /\ fetchStatus' = "rejected"
    /\ fetchQueue' = fetchQueue \o OnFetchRejected
    /\ UNCHANGED <<protocolData, isLoading, fetchCount, fetched,
                   fetchEffectPending, filterVars, ideVars, navVars,
                   lookupVars>>

\* lines 77-82, 96: the Category child calls onChange
ChangeCategory(value) ==
    /\ Len(paramQueue) < MaxQueue
    /\ paramQueue' = Append(paramQueue, handleChangeCategory(value))
    /\ lastCategory' = value
    /\ UNCHANGED <<searchParams, lastNetwork, lastBatch, fetchVars, ideVars,
                   navVars, lookupVars>>

\* lines 84-89, 103: the LevelSelect child calls onChange
ChangeNetwork(value) ==
    /\ Len(paramQueue) < MaxQueue
    /\ paramQueue' = Append(paramQueue, handleChangeNetwork(value))
    /\ lastNetwork' = value
    /\ UNCHANGED <<searchParams, lastCategory, lastBatch, fetchVars, ideVars,
                   navVars, lookupVars>>

\* lines 51-75: React calls the component: every queued call is applied,
\* and the effect is scheduled if its dependencies have changed.  An effect
\* scheduled by the render before is run before React renders again.
RenderProtocols ==
    /\ ~fetchEffectPending
    /\ paramQueue # <<>> \/ fetchQueue # <<>>
    /\ searchParams' = ApplyUpdaters(searchParams, paramQueue)
    /\ paramQueue' = <<>>
    /\ lastBatch' = Len(paramQueue)
    /\ LET s == ApplyFetchCalls([data |-> protocolData, isLoading |-> isLoading],
                                fetchQueue)
       IN /\ protocolData' = s.data
          /\ isLoading' = s.isLoading
          /\ fetchEffectPending' = DepsChanged(FetchEffectDeps(protocolData),
                                               FetchEffectDeps(s.data))
    /\ fetchQueue' = <<>>
    /\ UNCHANGED <<lastCategory, lastNetwork, fetchStatus, fetchCount, fetched,
                   ideVars, navVars, lookupVars>>

\* the view after its first render: the state of lines 53-59, nothing
\* queued, the effect scheduled
ProtocolsInit ==
    /\ searchParams = InitialSearchParams
    /\ paramQueue = <<>>
    /\ lastCategory = InitialSearchParams.category
    /\ lastNetwork = InitialSearchParams.network
    /\ lastBatch = 0
    /\ protocolData = InitialData
    /\ isLoading = InitialLoading
    /\ fetchQueue = <<>>
    /\ fetchStatus = "notIssued"
    /\ fetchCount = 0
    /\ fetched = <<>>
    /\ fetchEffectPending = TRUE

----------------------------------------------------------------------------
(* LessonNavigation *)

LessonIds == {"a", "b", "c"}
\* a lesson record of the fetched list; its index field is whatever the
\* content file says
Lessons == [id : LessonIds, index : 1..(MaxLessons + 1)]
LessonLists == UNION {[1..n -> Lessons] : n \in 0..MaxLessons}

\* Array.prototype.find: the first entry the predicate accepts, or undefined
Find(list, id) ==
    IF \E i \in 1..Len(list) : list[i].id = id
    THEN list[CHOOSE i \in 1..Len(list) :
                  /\ list[i].id = id
                  /\ \A j \in 1..(i - 1) : list[j].id # id]
    ELSE JsUndefined

\* list[k] for a zero-based k: undefined outside the list
At(list, k) == IF 0 <= k /\ k < Len(list) THEN list[k + 1] ELSE JsUndefined

\* (variant: optional chaining, no lesson found reads as no index)
ReadIndexOptional(found) ==
    [throws |-> FALSE, val |-> IF found = JsUndefined THEN 0 ELSE found.index]

\* line 16: reading .index of what find returned throws when it returned
\* undefined
ReadIndex(found) ==
    IF found = JsUndefined THEN [throws |-> TRUE, val |-> 0]
    ELSE [throws |-> FALSE, val |-> found.index]

\* line 11
DefaultPagination ==
    [status |-> "default", prevLesson |-> JsNull, nextLesson |-> JsNull]

\* lines 15-25
LessonNavigation(list, id) ==
    LET read == ReadIndex(Find(list, id))
        currentLessonIndex == read.val - 1
    IN IF read.throws
       THEN [status |-> "throws", prevLesson |-> JsNull, nextLesson |-> JsNull]
       ELSE [status |-> "resolved",
             prevLesson |-> IF currentLessonIndex > 0
                            THEN At(list, currentLessonIndex - 1) ELSE JsNull,
             nextLesson |-> IF currentLessonIndex < Len(list) - 1
                            THEN At(list, currentLessonIndex + 1) ELSE JsNull]

Resolve ==
    /\ pagination.status = "default"
    /\ pagination' = LessonNavigation(data, lessonId)
    /\ UNCHANGED <<data, lessonId, ideVars, protocolVars, lookupVars>>

NavInit ==
    /\ data \in LessonLists
    /\ lessonId \in LessonIds
    /\ pagination = DefaultPagination

NavIdle ==
    /\ data = <<>>
    /\ lessonId = "a"
    /\ pagination = DefaultPagination

----------------------------------------------------------------------------
(* The exercise content lookup of IdeComponent *)

(***************************************************************************)
(* CODE_SOLUTIONS and CODE_EXERCISES are plain objects, and obj[key] reads *)
(* the properties an object inherits as well as its own: under the lesson  *)
(* key "constructor" both mappings hold the function Object.  Property     *)
(* names and texts are sequences of letters.                               *)
(***************************************************************************)

\* a plain object with the given own properties
JsObject(props) == [t |-> "object", props |-> props]
\* a number: a natural number, or one of the constants of Number, told by
\* its name
JsNumber(n) == [t |-> "number", v |-> n]
JsNumberConstant(name) == [t |-> "number", constant |-> name]
\* a built-in function, told by the object that holds it and its name
JsFunction(holder, name) == [t |-> "function", of |-> holder, name |-> name]
\* Object.prototype, Function.prototype, String.prototype, Number.prototype
ObjectPrototype == [t |-> "prototype", of |-> "Object"]
FunctionPrototype == [t |-> "prototype", of |-> "Function"]
StringPrototype == [t |-> "prototype", of |-> "String"]
NumberPrototype == [t |-> "prototype", of |-> "Number"]
\* the outcome of a property read that throws a TypeError
JsThrows == [t |-> "throws"]

\* the function-valued properties of Object.prototype and the number of
\* parameters each declares
ObjectPrototypeMembers ==
    {[name |-> <<"h", "a", "s", "O", "w", "n", "P", "r", "o", "p", "e", "r", "t", "y">>, length |-> 1],
     [name |-> <<"i", "s", "P", "r", "o", "t", "o", "t", "y", "p", "e", "O", "f">>, length |-> 1],
     [name |-> <<"p", "r", "o", "p", "e", "r", "t", "y", "I", "s", "E", "n", "u", "m", "e", "r", "a", "b", "l", "e">>, length |-> 1],
     [name |-> <<"t", "o", "L", "o", "c", "a", "l", "e", "S", "t", "r", "i", "n", "g">>, length |-> 0],
     [name |-> <<"t", "o", "S", "t", "r", "i", "n", "g">>, length |-> 0],
     [name |-> <<"v", "a", "l", "u", "e", "O", "f">>, length |-> 0],
     [name |-> <<"_", "_", "d", "e", "f", "i", "n", "e", "G", "e", "t", "t", "e", "r", "_", "_">>, length |-> 2],
     [name |-> <<"_", "_", "d", "e", "f", "i", "n", "e", "S", "e", "t", "t", "e", "r", "_", "_">>, length |-> 2],
     [name |-> <<"_", "_", "l", "o", "o", "k", "u", "p", "G", "e", "t", "t", "e", "r", "_", "_">>, length |-> 1],
     [name |-> <<"_", "_", "l", "o", "o", "k", "u", "p", "S", "e", "t", "t", "e", "r", "_", "_">>, length |-> 1]}

\* the function-valued own properties that the function Object has in every
\* runtime the site runs on
ObjectStaticsCommon ==
    {[name |-> <<"a", "s", "s", "i", "g", "n">>, length |-> 2],
     [name |-> <<"c", "r", "e", "a", "t", "e">>, length |-> 2],
     [name |-> <<"d", "e", "f", "i", "n", "e", "P", "r", "o", "p", "e", "r", "t", "i", "e", "s">>, length |-> 2],
     [name |-> <<"d", "e", "f", "i", "n", "e", "P", "r", "o", "p", "e", "r", "t", "y">>, length |-> 3],
     [name |-> <<"e", "n", "t", "r", "i", "e", "s">>, length |-> 1],
     [name |-> <<"f", "r", "e", "e", "z", "e">>, length |-> 1],
     [name |-> <<"f", "r", "o", "m", "E", "n", "t", "r", "i", "e", "s">>, length |-> 1],
     [name |-> <<"g", "e", "t", "O", "w", "n", "P", "r", "o", "p", "e", "r", "t", "y", "D", "e", "s", "c", "r", "i", "p", "t", "o", "r">>, length |-> 2],
     [name |-> <<"g", "e", "t", "O", "w", "n", "P", "r", "o", "p", "e", "r", "t", "y", "D", "e", "s", "c", "r", "i", "p", "t", "o", "r", "s">>, length |-> 1],
     [name |-> <<"g", "e", "t", "O", "w", "n", "P", "r", "o", "p", "e", "r", "t", "y", "N", "a", "m", "e", "s">>, length |-> 1],
     [name |-> <<"g", "e", "t", "O", "w", "n", "P", "r", "o", "p", "e", "r", "t", "y", "S", "y", "m", "b", "o", "l", "s">>, length |-> 1],
     [name |-> <<"g", "e", "t", "P", "r", "o", "t", "o", "t", "y", "p", "e", "O", "f">>, length |-> 1],
     [name |-> <<"h", "a", "s", "O", "w", "n">>, length |-> 2],
     [name |-> <<"i", "s">>, length |-> 2],
     [name |-> <<"i", "s", "E", "x", "t", "e", "n", "s", "i", "b", "l", "e">>, length |-> 1],
     [name |-> <<"i", "s", "F", "r", "o", "z", "e", "n">>, length |-> 1],
     [name |-> <<"i", "s", "S", "e", "a", "l", "e", "d">>, length |-> 1],
     [name |-> <<"k", "e", "y", "s">>, length |-> 1],
     [name |-> <<"p", "r", "e", "v", "e", "n", "t", "E", "x", "t", "e", "n", "s", "i", "o", "n", "s">>, length |-> 1],
     [name |-> <<"s", "e", "a", "l">>, length |-> 1],
     [name |-> <<"s", "e", "t", "P", "r", "o", "t", "o", "t", "y", "p", "e", "O", "f">>, length |-> 2],
     [name |-> <<"v", "a", "l", "u", "e", "s">>, length |-> 1]}

\* the function-valued own properties of the function Object.  Object.groupBy
\* is of ECMAScript 2024: the runtime that renders the component (Node on
\* the server, the visitor's browser after that) has it or has it not, and
\* the code does not say which
ObjectStatics ==
    ObjectStaticsCommon
        \cup (IF hasGroupBy
              THEN {[name |-> <<"g", "r", "o", "u", "p", "B", "y">>, length |-> 2]}
              ELSE {})

\* the function-valued properties of Function.prototype
FunctionPrototypeMembers ==
    {[name |-> <<"a", "p", "p", "l", "y">>, length |-> 2],
     [name |-> <<"b", "i", "n", "d">>, length |-> 1],
     [name |-> <<"c", "a", "l", "l">>, length |-> 1],
     [name |-> <<"t", "o", "S", "t", "r", "i", "n", "g">>, length |-> 0]}

\* the function-valued properties of String.prototype
StringPrototypeMembers ==
    {[name |-> <<"a", "n", "c", "h", "o", "r">>, length |-> 1],
     [name |-> <<"a", "t">>, length |-> 1],
     [name |-> <<"b", "i", "g">>, length |-> 0],
     [name |-> <<"b", "l", "i", "n", "k">>, length |-> 0],
     [name |-> <<"b", "o", "l", "d">>, length |-> 0],
     [name |-> <<"c", "h", "a", "r", "A", "t">>, length |-> 1],
     [name |-> <<"c", "h", "a", "r", "C", "o", "d", "e", "A", "t">>, length |-> 1],
     [name |-> <<"c", "o", "d", "e", "P", "o", "i", "n", "t", "A", "t">>, length |-> 1],
     [name |-> <<"c", "o", "n", "c", "a", "t">>, length |-> 1],
     [name |-> <<"e", "n", "d", "s", "W", "i", "t", "h">>, length |-> 1],
     [name |-> <<"f", "i", "x", "e", "d">>, length |-> 0],
     [name |-> <<"f", "o", "n", "t", "c", "o", "l", "o", "r">>, length |-> 1],
     [name |-> <<"f", "o", "n", "t", "s", "i", "z", "e">>, length |-> 1],
     [name |-> <<"i", "n", "c", "l", "u", "d", "e", "s">>, length |-> 1],
     [name |-> <<"i", "n", "d", "e", "x", "O", "f">>, length |-> 1],
     [name |-> <<"i", "s", "W", "e", "l", "l", "F", "o", "r", "m", "e", "d">>, length |-> 0],
     [name |-> <<"i", "t", "a", "l", "i", "c", "s">>, length |-> 0],
     [name |-> <<"l", "a", "s", "t", "I", "n", "d", "e", "x", "O", "f">>, length |-> 1],
     [name |-> <<"l", "i", "n", "k">>, length |-> 1],
     [name |-> <<"l", "o", "c", "a", "l", "e", "C", "o", "m", "p", "a", "r", "e">>, length |-> 1],
     [name |-> <<"m", "a", "t", "c", "h">>, length |-> 1],
     [name |-> <<"m", "a", "t", "c", "h", "A", "l", "l">>, length |-> 1],
     [name |-> <<"n", "o", "r", "m", "a", "l", "i", "z", "e">>, length |-> 0],
     [name |-> <<"p", "a", "d", "E", "n", "d">>, length |-> 1],
     [name |-> <<"p", "a", "d", "S", "t", "a", "r", "t">>, length |-> 1],
     [name |-> <<"r", "e", "p", "e", "a", "t">>, length |-> 1],
     [name |-> <<"r", "e", "p", "l", "a", "c", "e">>, length |-> 2],
     [name |-> <<"r", "e", "p", "l", "a", "c", "e", "A", "l", "l">>, length |-> 2],
     [name |-> <<"s", "e", "a", "r", "c", "h">>, length |-> 1],
     [name |-> <<"s", "l", "i", "c", "e">>, length |-> 2],
     [name |-> <<"s", "m", "a", "l", "l">>, length |-> 0],
     [name |-> <<"s", "p", "l", "i", "t">>, length |-> 2],
     [name |-> <<"s", "t", "a", "r", "t", "s", "W", "i", "t", "h">>, length |-> 1],
     [name |-> <<"s", "t", "r", "i", "k", "e">>, length |-> 0],
     [name |-> <<"s", "u", "b">>, length |-> 0],
     [name |-> <<"s", "u", "b", "s", "t", "r">>, length |-> 2],
     [name |-> <<"s", "u", "b", "s", "t", "r", "i", "n", "g">>, length |-> 2],
     [name |-> <<"s", "u", "p">>, length |-> 0],
     [name |-> <<"t", "o", "L", "o", "c", "a", "l", "e", "L", "o", "w", "e", "r", "C", "a", "s", "e">>, length |-> 0],
     [name |-> <<"t", "o", "L", "o", "c", "a", "l", "e", "U", "p", "p", "e", "r", "C", "a", "s", "e">>, length |-> 0],
     [name |-> <<"t", "o", "L", "o", "w", "e", "r", "C", "a", "s", "e">>, length |-> 0],
     [name |-> <<"t", "o", "S", "t", "r", "i", "n", "g">>, length |-> 0],
     [name |-> <<"t", "o", "U", "p", "p", "e", "r", "C", "a", "s", "e">>, length |-> 0],
     [name |-> <<"t", "o", "W", "e", "l", "l", "F", "o", "r", "m", "e", "d">>, length |-> 0],
     [name |-> <<"t", "r", "i", "m">>, length |-> 0],
     [name |-> <<"t", "r", "i", "m", "E", "n", "d">>, length |-> 0],
     [name |-> <<"t", "r", "i", "m", "S", "t", "a", "r", "t">>, length |-> 0],
     [name |-> <<"v", "a", "l", "u", "e", "O", "f">>, length |-> 0]}

\* trimLeft and trimRight are second names of the functions trimStart and
\* trimEnd
StringPrototypeAliases ==
    {[name |-> <<"t", "r", "i", "m", "L", "e", "f", "t">>, of |-> <<"t", "r", "i", "m", "S", "t", "a", "r", "t">>],
     [name |-> <<"t", "r", "i", "m", "R", "i", "g", "h", "t">>, of |-> <<"t", "r", "i", "m", "E", "n", "d">>]}

\* the function-valued properties of Number.prototype
NumberPrototypeMembers ==
    {[name |-> <<"t", "o", "E", "x", "p", "o", "n", "e", "n", "t", "i", "a", "l">>, length |-> 1],
     [name |-> <<"t", "o", "F", "i", "x", "e", "d">>, length |-> 1],
     [name |-> <<"t", "o", "L", "o", "c", "a", "l", "e", "S", "t", "r", "i", "n", "g">>, length |-> 0],
     [name |-> <<"t", "o", "P", "r", "e", "c", "i", "s", "i", "o", "n">>, length |-> 1],
     [name |-> <<"t", "o", "S", "t", "r", "i", "n", "g">>, length |-> 1],
     [name |-> <<"v", "a", "l", "u", "e", "O", "f">>, length |-> 0]}

\* the function-valued own properties of the function String
StringStatics ==
    {[name |-> <<"f", "r", "o", "m", "C", "h", "a", "r", "C", "o", "d", "e">>, length |-> 1],
     [name |-> <<"f", "r", "o", "m", "C", "o", "d", "e", "P", "o", "i", "n", "t">>, length |-> 1],
     [name |-> <<"r", "a", "w">>, length |-> 1]}

\* the function-valued own properties of the function Number that no other
\* object holds
NumberStatics ==
    {[name |-> <<"i", "s", "F", "i", "n", "i", "t", "e">>, length |-> 1],
     [name |-> <<"i", "s", "I", "n", "t", "e", "g", "e", "r">>, length |-> 1],
     [name |-> <<"i", "s", "N", "a", "N">>, length |-> 1],
     [name |-> <<"i", "s", "S", "a", "f", "e", "I", "n", "t", "e", "g", "e", "r">>, length |-> 1]}

\* the functions of the global object that a property read can give
GlobalFunctions ==
    {[name |-> <<"F", "u", "n", "c", "t", "i", "o", "n">>, length |-> 1],
     [name |-> <<"N", "u", "m", "b", "e", "r">>, length |-> 1],
     [name |-> <<"O", "b", "j", "e", "c", "t">>, length |-> 1],
     [name |-> <<"S", "t", "r", "i", "n", "g">>, length |-> 1],
     [name |-> <<"p", "a", "r", "s", "e", "F", "l", "o", "a", "t">>, length |-> 1],
     [name |-> <<"p", "a", "r", "s", "e", "I", "n", "t">>, length |-> 2]}

\* the number-valued own properties of the function Number
NumberConstants ==
    {<<"E", "P", "S", "I", "L", "O", "N">>,
     <<"M", "A", "X", "_", "S", "A", "F", "E", "_", "I", "N", "T", "E", "G", "E", "R">>,
     <<"M", "A", "X", "_", "V", "A", "L", "U", "E">>,
     <<"M", "I", "N", "_", "S", "A", "F", "E", "_", "I", "N", "T", "E", "G", "E", "R">>,
     <<"M", "I", "N", "_", "V", "A", "L", "U", "E">>,
     <<"N", "a", "N">>,
     <<"N", "E", "G", "A", "T", "I", "V", "E", "_", "I", "N", "F", "I", "N", "I", "T", "Y">>,
     <<"P", "O", "S", "I", "T", "I", "V", "E", "_", "I", "N", "F", "I", "N", "I", "T", "Y">>}

Names(members) == {m.name : m \in members}
ProtoKey == <<"_", "_", "p", "r", "o", "t", "o", "_", "_">>
ConstructorKey == <<"c", "o", "n", "s", "t", "r", "u", "c", "t", "o", "r">>
LengthKey == <<"l", "e", "n", "g", "t", "h">>
NameKey == <<"n", "a", "m", "e">>
PrototypeKey == <<"p", "r", "o", "t", "o", "t", "y", "p", "e">>
\* the properties of Function.prototype whose getter throws
RestrictedKeys == {<<"c", "a", "l", "l", "e", "r">>,
                   <<"a", "r", "g", "u", "m", "e", "n", "t", "s">>}

\* the functions Object, Function, String and Number
ObjectConstructor == JsFunction("global", <<"O", "b", "j", "e", "c", "t">>)
FunctionConstructor == JsFunction("global", <<"F", "u", "n", "c", "t", "i", "o", "n">>)
StringConstructor == JsFunction("global", <<"S", "t", "r", "i", "n", "g">>)
NumberConstructor == JsFunction("global", <<"N", "u", "m", "b", "e", "r">>)

\* the number of parameters the built-in function f declares
FunctionLength(f) ==
    LET members == CASE f.of = "Object" -> ObjectStatics
                     [] f.of = "String" -> StringStatics
                     [] f.of = "Number" -> NumberStatics
                     [] f.of = "Function.prototype" -> FunctionPrototypeMembers
                     [] f.of = "Object.prototype" -> ObjectPrototypeMembers
                     [] f.of = "String.prototype" -> StringPrototypeMembers
                     [] f.of = "Number.prototype" -> NumberPrototypeMembers
                     [] f.of = "global" -> GlobalFunctions
    IN (CHOOSE m \in members : m.name = f.name).length

\* a property Object.prototype gives to every object
FromObjectPrototype(key) ==
    CASE key = ConstructorKey -> ObjectConstructor
      [] key \in Names(ObjectPrototypeMembers) -> JsFunction("Object.prototype", key)
      [] OTHER -> JsUndefined

\* a property Function.prototype gives to every function, or has from
\* Object.prototype
FromFunctionPrototype(key) ==
    CASE key \in RestrictedKeys -> JsThrows
      [] key = ConstructorKey -> FunctionConstructor
      [] key \in Names(FunctionPrototypeMembers) ->
            JsFunction("Function.prototype", key)
      [] OTHER -> FromObjectPrototype(key)

\* a property String.prototype gives to every string, or has from
\* Object.prototype
FromStringPrototype(key) ==
    CASE key = ConstructorKey -> StringConstructor
      [] key \in Names(StringPrototypeMembers) ->
            JsFunction("String.prototype", key)
      [] key \in Names(StringPrototypeAliases) ->
            JsFunction("String.prototype",
                       (CHOOSE a \in StringPrototypeAliases : a.name = key).of)
      [] OTHER -> FromObjectPrototype(key)

\* a property Number.prototype gives to every number, or has from
\* Object.prototype
FromNumberPrototype(key) ==
    CASE key = ConstructorKey -> NumberConstructor
      [] key \in Names(NumberPrototypeMembers) ->
            JsFunction("Number.prototype", key)
      [] OTHER -> FromObjectPrototype(key)

\* p[key] for one of the four prototype objects.  Function.prototype is a
\* function without parameters and without a name, String.prototype a
\* String object of the empty string
GetOfPrototype(p, key) ==
    CASE p = ObjectPrototype ->
            IF key = ProtoKey THEN JsNull ELSE FromObjectPrototype(key)
      [] p = FunctionPrototype ->
            CASE key = LengthKey -> JsNumber(0)
              [] key = NameKey -> JsString(<<>>)
              [] key = ProtoKey -> ObjectPrototype
              [] OTHER -> FromFunctionPrototype(key)
      [] p = StringPrototype ->
            CASE key = LengthKey -> JsNumber(0)
              [] key = ProtoKey -> ObjectPrototype
              [] OTHER -> FromStringPrototype(key)
      [] p = NumberPrototype ->
            IF key = ProtoKey THEN ObjectPrototype
            ELSE FromNumberPrototype(key)

\* f[key] for a built-in function f: its own length and name, for Object,
\* Function, String and Number the prototype property and the own
\* functions and constants, then Function.prototype, then Object.prototype.
\* Number.parseFloat and Number.parseInt are the functions of the global
\* object
GetOfFunction(f, key) ==
    CASE key = LengthKey -> JsNumber(FunctionLength(f))
      [] key = NameKey -> JsString(f.name)
      [] f = ObjectConstructor /\ key = PrototypeKey -> ObjectPrototype
      [] f = FunctionConstructor /\ key = PrototypeKey -> FunctionPrototype
      [] f = StringConstructor /\ key = PrototypeKey -> StringPrototype
      [] f = NumberConstructor /\ key = PrototypeKey -> NumberPrototype
      [] f = ObjectConstructor /\ key \in Names(ObjectStatics) ->
            JsFunction("Object", key)
      [] f = StringConstructor /\ key \in Names(StringStatics) ->
            JsFunction("String", key)
      [] f = NumberConstructor /\ key \in Names(NumberStatics) ->
            JsFunction("Number", key)
      [] f = NumberConstructor /\ key \in {<<"p", "a", "r", "s", "e", "F", "l", "o", "a", "t">>,
                                           <<"p", "a", "r", "s", "e", "I", "n", "t">>} ->
            JsFunction("global", key)
      [] f = NumberConstructor /\ key \in NumberConstants ->
            JsNumberConstant(key)
      [] key = ProtoKey -> FunctionPrototype
      [] OTHER -> FromFunctionPrototype(key)

\* s[key] for a string s: its length, the letter at an index written as a
\* decimal numeral, then String.prototype, then Object.prototype
GetOfString(s, key) ==
    CASE key = LengthKey -> JsNumber(Len(s))
      [] \E i \in 0..(Len(s) - 1) : key = Numeral(i) ->
            JsString(<<s[(CHOOSE i \in 0..(Len(s) - 1) : key = Numeral(i)) + 1]>>)
      [] key = ProtoKey -> StringPrototype
      [] OTHER -> FromStringPrototype(key)

\* n[key] for a number n: Number.prototype, then Object.prototype
GetOfNumber(key) ==
    IF key = ProtoKey THEN NumberPrototype ELSE FromNumberPrototype(key)

\* obj[key]: an own property, else an inherited one, else undefined; reading
\* a property of undefined or null throws
Get(obj, key) ==
    CASE obj.t = "object" ->
            IF key \in DOMAIN obj.props THEN obj.props[key]
            ELSE IF key = ProtoKey THEN ObjectPrototype
            ELSE FromObjectPrototype(key)
      [] obj.t = "prototype" -> GetOfPrototype(obj, key)
      [] obj.t = "function" -> GetOfFunction(obj, key)
      [] obj.t = "string" -> GetOfString(obj.v, key)
      [] obj.t = "number" -> GetOfNumber(key)
      [] obj.t \in {"undefined", "null"} -> JsThrows

EmptyString == JsString(<<>>)
\* objects and functions are truthy; undefined, null, "", 0 and NaN are not
Truthy(x) ==
    CASE x.t \in {"undefined", "null"} -> FALSE
      [] x.t = "string" -> x.v # <<>>
      [] x.t = "number" ->
            IF "v" \in DOMAIN x THEN x.v # 0
            ELSE x.constant # <<"N", "a", "N">>
      [] OTHER -> TRUE

\* lines 28-36
CodeLookup(solutions, templates, key, exercise) ==
    IF Truthy(Get(solutions, key)) /\ Truthy(Get(templates, key))
    THEN LET codeSolution == Get(Get(solutions, key), exercise)
             codeTemplate == Get(Get(templates, key), exercise)
         IN IF JsThrows \in {codeSolution, codeTemplate}
            THEN [status |-> "throws", codeSolution |-> JsUndefined,
                  codeTemplate |-> JsUndefined]
            ELSE [status |-> "done", codeSolution |-> codeSolution,
                  codeTemplate |-> codeTemplate]
    ELSE [status |-> "done",
          codeSolution |-> EmptyString, codeTemplate |-> EmptyString]

\* the lesson keys and exercise names of the content store
LessonKeys == {<<"l", "e", "s", "s", "o", "n", "1">>, <<"l", "e", "s", "s", "o", "n", "2">>}
ExerciseKeys == {ExerciseWord \o <<"1">>, ExerciseWord \o <<"2">>}

\* the values of the slug: the lesson keys and two names that every object
\* inherits
SlugValues == LessonKeys \cup {ConstructorKey, ProtoKey}
\* the values of the exercise prop of the lookup: the exercise names, the
\* prop left out, two names that objects or functions inherit, and the name
\* that the function Object has in some runtimes only
LookupProps ==
    {JsString(k) : k \in ExerciseKeys}
        \cup {JsUndefined, JsString(LengthKey),
              JsString(<<"t", "o", "S", "t", "r", "i", "n", "g">>),
              JsString(<<"g", "r", "o", "u", "p", "B", "y">>)}

\* the objects with string values under some of the keys
ObjectsOver(keys, values) ==
    {JsObject(props) : props \in UNION {[ks -> values] : ks \in SUBSET keys}}

ExerciseTexts(text) == ObjectsOver(ExerciseKeys, {JsString(text)})
\* the two content mappings, lesson key -> exercise name -> text
SolutionStores ==
    ObjectsOver(LessonKeys, ExerciseTexts(<<"s", "o", "l", "u", "t", "i", "o", "n">>))
TemplateStores ==
    ObjectsOver(LessonKeys, ExerciseTexts(<<"t", "e", "m", "p", "l", "a", "t", "e">>))

PendingLookup ==
    [status |-> "pending", codeSolution |-> JsUndefined,
     codeTemplate |-> JsUndefined]

\* lines 28-36: the first evaluation of the memo
Memo ==
    /\ lookup.status = "pending"
    /\ lookup' = CodeLookup(codeSolutions, codeExercises, lessonKey,
                            ExerciseOrDefault(exerciseProp))
    /\ UNCHANGED <<codeSolutions, codeExercises, lessonKey, exerciseProp,
                   hasGroupBy, ideVars, protocolVars, navVars>>

LookupInit ==
    /\ codeSolutions \in SolutionStores
    /\ codeExercises \in TemplateStores
    /\ lessonKey \in SlugValues
    /\ exerciseProp \in LookupProps
    /\ hasGroupBy \in BOOLEAN
    /\ lookup = PendingLookup

\* the content store while another view runs
LookupIdle ==
    /\ codeSolutions = JsObject(<<>>)
    /\ codeExercises = JsObject(<<>>)
    /\ lessonKey = <<"l", "e", "s", "s", "o", "n", "1">>
    /\ exerciseProp = JsUndefined
    /\ hasGroupBy = FALSE
    /\ lookup = PendingLookup

----------------------------------------------------------------------------
(* IdeComponent: render, effect and mount *)

\* lines 17-72: React calls the component with the exercise prop p.  The
\* queued calls are applied to the state, the memo of lines 28-36 is
\* evaluated for p, and the effect of lines 66-70 is scheduled if its
\* dependency has changed.  An effect scheduled by the render before is run
\* before React renders again.
RenderIde(p, record) ==
    /\ ~effectPending
    /\ ideQueue # <<>> \/ p # exerciseProp
    /\ LET s == RenderBatch(IdeState, ideQueue)
       IN /\ tries' = s.tries
          /\ solutionViewer' = s.solutionViewer
          /\ showSolutionButton' = s.showSolutionButton
          /\ completedExerciseNumber' = s.completedExerciseNumber
          /\ isModalOpen' = s.isModalOpen
          /\ effectPending' = DepsChanged(completedExerciseNumber,
                                          s.completedExerciseNumber)
          /\ solutionSeen' = (solutionSeen \/ ("solutionSeen" \in record
                                                /\ s.showSolutionButton))
    /\ ideQueue' = <<>>
    /\ batched' = 0
    /\ submittedCorrect' = FALSE
    /\ exerciseProp' = p
    /\ lookup' = CodeLookup(codeSolutions, codeExercises, lessonKey,
                            ExerciseOrDefault(p))
    /\ UNCHANGED <<notified, modalSignals, lastOp, streak, incorrectSince,
                   lastReveal, codeSolutions, codeExercises, lessonKey,
                   hasGroupBy, protocolVars, navVars>>

\* lines 66-70: React runs the scheduled effect; its call is queued like
\* the calls of a handler
RunEffect ==
    /\ effectPending
    /\ effectPending' = FALSE
    /\ ideQueue' = ideQueue \o ModalEffect(completedExerciseNumber)
    /\ modalSignals' = modalSignals + Len(ModalEffect(completedExerciseNumber))
    /\ UNCHANGED <<tries, solutionViewer, showSolutionButton,
                   completedExerciseNumber, isModalOpen, notified, lastOp,
                   streak, incorrectSince, solutionSeen, lastReveal, batched,
                   submittedCorrect>>
    /\ UNCHANGED <<protocolVars, navVars, lookupVars>>

\* lines 18-24
InitialIdeState ==
    [tries |-> 0, solutionViewer |-> FALSE, showSolutionButton |-> FALSE,
     completedExerciseNumber |-> 0, isModalOpen |-> FALSE]

\* the view after its first render: the state of lines 18-24, nothing
\* queued, and the effect of lines 66-70 scheduled, as every effect is by
\* the first render
IdeInit ==
    /\ tries = InitialIdeState.tries
    /\ solutionViewer = InitialIdeState.solutionViewer
    /\ showSolutionButton = InitialIdeState.showSolutionButton
    /\ completedExerciseNumber = InitialIdeState.completedExerciseNumber
    /\ isModalOpen = InitialIdeState.isModalOpen
    /\ effectPending = TRUE
    /\ ideQueue = <<>>
    /\ batched = 0
    /\ notified = <<>>
    /\ modalSignals = 0
    /\ lastOp = [name |-> "mount", isCorrect |-> FALSE, reveal |-> FALSE,
                 tries |-> InitialIdeState.tries]
    /\ streak = 0
    /\ incorrectSince = 0
    /\ solutionSeen = FALSE
    /\ lastReveal = FALSE
    /\ submittedCorrect = FALSE

\* the first render of the exercise view, for an exercise prop of props,
\* over a content store without lessons
IdeMounted(props) ==
    /\ codeSolutions = JsObject(<<>>)
    /\ codeExercises = JsObject(<<>>)
    /\ lessonKey = <<"l", "e", "s", "s", "o", "n", "1">>
    /\ exerciseProp \in props
    /\ hasGroupBy = FALSE
    /\ lookup = CodeLookup(codeSolutions, codeExercises, lessonKey,
                           ExerciseOrDefault(exerciseProp))

----------------------------------------------------------------------------
(* Specifications *)

\* the steps of the exercise view, for exercise props of props, recording
\* the history variables of record
IdeNext(props, record) ==
    \/ \E isCorrect \in BOOLEAN, atRender \in BOOLEAN :
            Submit(isCorrect, atRender, record)
    \/ ClickAnswers(record)
    \/ ClickCode(record)
    \/ CloseModal(record)
    \/ \E p \in props : RenderIde(p, record)
    \/ RunEffect

\* the exercise props of the runs about the attempt counter and the reveal
\* buttons: the prop left out and the exercise that finishes the lesson
RevealProps == {JsUndefined, JsString(ExerciseWord \o Numeral(LessonLength))}

\* the exercise view, every history variable recorded
Init == IdeInit /\ ProtocolsInit /\ NavIdle /\ IdeMounted(RevealProps)
Next == IdeNext(RevealProps, AllHistory)
Spec == Init /\ [][Next]_vars

\* the exercise view, recording what the properties of the completion
\* counter and the dialog read: modalSignals and submittedCorrect
InitCompletion ==
    IdeInit /\ ProtocolsInit /\ NavIdle /\ IdeMounted(ExerciseProps)
NextCompletion == IdeNext(ExerciseProps, {})
SpecCompletion == InitCompletion /\ [][NextCompletion]_vars

\* the exercise view, recording the last handler run and whether the
\* solution view has been shown
InitReveal == IdeInit /\ ProtocolsInit /\ NavIdle /\ IdeMounted(RevealProps)
NextReveal == IdeNext(RevealProps, {"lastOp", "solutionSeen"})
SpecReveal == InitReveal /\ [][NextReveal]_vars

\* the Protocols view
InitProtocols == IdeInit /\ ProtocolsInit /\ NavIdle /\ LookupIdle
NextProtocols ==
    \/ MountEffect
    \/ \E payload \in FetchPayloads : FetchFulfilled(payload)
    \/ FetchRejected
    \/ \E value \in CategoryValues : ChangeCategory(value)
    \/ \E value \in NetworkValues : ChangeNetwork(value)
    \/ RenderProtocols
SpecProtocols == InitProtocols /\ [][NextProtocols]_vars

\* the lesson navigation, on every list and lesson id within the bounds
InitNav == IdeInit /\ ProtocolsInit /\ NavInit /\ LookupIdle
NextNav == Resolve
SpecNav == InitNav /\ [][NextNav]_vars

\* the content lookup, on every content store within the bounds
InitLookup == IdeInit /\ ProtocolsInit /\ NavIdle /\ LookupInit
NextLookup == Memo
SpecLookup == InitLookup /\ [][NextLookup]_vars

----------------------------------------------------------------------------
(* Properties of the exercise view: C1, C2 and C5 under Spec, C3 and C4     *)
(* under SpecCompletion, C6 under SpecReveal                               *)

CorrectSubmit(op) == op.name = "submit" /\ op.isCorrect
\* every call made so far has been rendered
Rendered == ideQueue = <<>>
\* the exercise index the submission handler of the current render reads
ExerciseIndex == currentExerciseNumber(ExerciseOrDefault(exerciseProp))

\* C1: from a freshly mounted view, after k consecutive incorrect
\* submissions and nothing else, the reveal flag is true if and only if
\* k > 2.
RevealAfterThirdIncorrect ==
    (streak >= 0 /\ Rendered) => (solutionViewer <=> (streak > 2))

\* C2: a correct submission leaves the attempt counter 0 and the reveal flag
\* false, whatever they were before and whether or not the completion
\* counter advances.
CorrectSubmissionResets ==
    (CorrectSubmit(lastOp) /\ Rendered) => (tries = 0 /\ ~solutionViewer)

\* C3: the completion counter never decreases, and it changes only by a
\* correct submission of an exercise whose index is strictly greater than
\* the counter, to exactly that index.
CompletionCounterMonotone ==
    [][/\ completedExerciseNumber' >= completedExerciseNumber
       /\ completedExerciseNumber' # completedExerciseNumber =>
            /\ submittedCorrect
            /\ ExerciseIndex.ok
            /\ ExerciseIndex.val > completedExerciseNumber
            /\ completedExerciseNumber' = ExerciseIndex.val]_vars
CompletionCounterMonotoneWitness ==
    /\ completedExerciseNumber = 2
    /\ submittedCorrect
    /\ ExerciseIndex.val = 4
    /\ \E i \in DOMAIN ideQueue :
          ideQueue[i] = Call("setCompletedExerciseNumber", 4, FALSE)

\* C4: the lesson-finished signal is given at most once, and only by the
\* effect of the render in which the completion counter has changed to 5;
\* the dialog is opened by that signal alone, so that a correct submission
\* arriving after the dialog was closed with the counter at 5 does not open
\* it again.
LessonFinishedSignalOnce ==
    [][/\ modalSignals' # modalSignals =>
            /\ modalSignals = 0
            /\ modalSignals' = 1
            /\ effectPending
            /\ completedExerciseNumber = 5
       /\ (effectPending' /\ ~effectPending) =>
            completedExerciseNumber' # completedExerciseNumber
       /\ (isModalOpen' /\ ~isModalOpen) =>
            /\ modalSignals = 1
            /\ \E i \in DOMAIN ideQueue :
                  ideQueue[i] = Call("setIsModalOpen", 0, TRUE)]_vars
LessonFinishedSignalOnceWitness ==
    /\ completedExerciseNumber = 5
    /\ modalSignals = 1
    /\ ~isModalOpen
    /\ ~effectPending
    /\ submittedCorrect
    /\ ExerciseIndex.val = 5
    /\ \A i \in DOMAIN ideQueue : ideQueue[i].op # "setIsModalOpen"

\* C5: onComplete is called in a step if and only if the step is a correct
\* submission of an exercise whose index is strictly greater than the
\* stored completion counter; the argument is that index, which is the
\* counter's new value; so the notified indices are strictly increasing.
NotifiedExactlyOnAdvance ==
    /\ [](\A i, j \in 1..Len(notified) : i < j => notified[i] < notified[j])
    /\ []((Rendered /\ notified # <<>>) =>
              completedExerciseNumber = notified[Len(notified)])
    /\ [][notified' =
             IF /\ batched' = batched + 1
                /\ CorrectSubmit(lastOp')
                /\ ExerciseIndex.ok
                /\ ExerciseIndex.val > completedExerciseNumber
             THEN Recent(Append(notified, ExerciseIndex.val))
             ELSE notified]_vars

\* C6: handleSolutionButtonClick(reveal) sets the reveal flag to reveal and
\* the attempt counter to 0, for both values of reveal and from any attempt
\* count and flag: in the render that follows a run in which such a click
\* was handled last, and for the calls of the handler applied to the
\* current state with any attempt count and flag in place of its own; after
\* reveal on and then off the counter is 0 and the flag false.
ToggleRevealSetsFlagAndResets ==
    /\ (lastOp.name = "toggleReveal" /\ Rendered) =>
            /\ solutionViewer = lastOp.reveal
            /\ tries = 0
    /\ \A reveal \in BOOLEAN, flag \in BOOLEAN, count \in 0..(MaxTries + 1) :
            LET before == [IdeState EXCEPT !.tries = count,
                                           !.solutionViewer = flag]
                after == RenderBatch(before, handleSolutionButtonClick(reveal))
            IN /\ after.solutionViewer = reveal
               /\ after.tries = 0
ToggleRevealSetsFlagAndResetsWitness ==
    /\ lastOp.name = "toggleReveal"
    /\ ~lastOp.reveal
    /\ lastOp.tries = 4
    /\ Rendered
    /\ solutionSeen
    /\ tries = 0
    /\ ~solutionViewer
    /\ ~showSolutionButton

----------------------------------------------------------------------------
(* Properties of the lesson navigation, under SpecNav *)

DistinctIds(list) ==
    \A i, j \in 1..Len(list) : list[i].id = list[j].id => i = j
Matches(list, id) == \E i \in 1..Len(list) : list[i].id = id
PositionOf(list, id) == CHOOSE i \in 1..Len(list) : list[i].id = id

\* C7: for a list with distinct ids and a lesson id that is in it, prev is
\* the entry before the position of that lesson in the list and next the
\* entry after it, null at the first and the last position.
NeighboursByPosition ==
    (pagination.status # "default" /\ DistinctIds(data) /\ Matches(data, lessonId))
        => LET pos == PositionOf(data, lessonId)
           IN /\ pagination.status = "resolved"
              /\ pagination.prevLesson =
                    (IF pos > 1 THEN data[pos - 1] ELSE JsNull)
              /\ pagination.nextLesson =
                    (IF pos < Len(data) THEN data[pos + 1] ELSE JsNull)

\* the index fields of the list number its entries 1, 2, ...
IndexIsPosition(list) == \A i \in 1..Len(list) : list[i].index = i

\* what the code gives instead: the neighbours of the entry's index field,
\* which are the neighbours in the list when the index fields number it
NeighboursByIndexField ==
    (pagination.status # "default" /\ DistinctIds(data) /\ Matches(data, lessonId)
        /\ IndexIsPosition(data))
        => LET pos == PositionOf(data, lessonId)
           IN /\ pagination.status = "resolved"
              /\ pagination.prevLesson =
                    (IF pos > 1 THEN data[pos - 1] ELSE JsNull)
              /\ pagination.nextLesson =
                    (IF pos < Len(data) THEN data[pos + 1] ELSE JsNull)

\* C8: when no lesson of the list has the given id the lookup throws and no
\* pagination is produced, not even the default one.
ThrowsWhenNoMatch ==
    (pagination.status # "default" /\ ~Matches(data, lessonId))
        => pagination.status = "throws"
ThrowsWhenNoMatchWitness ==
    /\ pagination.status = "throws"
    /\ Len(data) = 2
    /\ ~Matches(data, lessonId)

----------------------------------------------------------------------------
(* Properties of the content lookup, under SpecLookup *)

\* C9: when the content store has no template and no solution for the
\* lesson key and exercise name, be it that the lesson key is missing or
\* that the exercise name is missing under it, both texts are the empty
\* string.
MissingContentIsEmptyString ==
    LET name == ExerciseOrDefault(exerciseProp)
        noSolution ==
            \/ lessonKey \notin DOMAIN codeSolutions.props
            \/ name \notin DOMAIN codeSolutions.props[lessonKey].props
        noTemplate ==
            \/ lessonKey \notin DOMAIN codeExercises.props
            \/ name \notin DOMAIN codeExercises.props[lessonKey].props
    IN (lookup.status # "pending" /\ noSolution /\ noTemplate)
          => /\ lookup.status = "done"
             /\ lookup.codeSolution = EmptyString
             /\ lookup.codeTemplate = EmptyString

----------------------------------------------------------------------------
(* Properties of the Protocols filters, under SpecProtocols *)

\* C10: once rendered, the category is the value of the last category
\* change and the level the value of the last level change, however many
\* changes of either kind were queued before the render.
FilterFieldsAreLastWrites ==
    paramQueue = <<>> =>
        /\ searchParams.category = lastCategory
        /\ searchParams.network = lastNetwork
FilterFieldsAreLastWritesWitness ==
    /\ paramQueue = <<>>
    /\ lastBatch = 3
    /\ searchParams.category = "Gaming"
    /\ searchParams.network = "Advanced"

\* C11: the content fetch is issued once, by the effect of the first
\* render, and never again; the loading flag is true from mount and changes
\* only in the render that stores the data of a fulfilled fetch, where it
\* becomes false; after a rejected fetch the loading flag is true in every
\* later state.
FetchOnceAndLoadingClearedBySuccessOnly ==
    /\ [](fetchCount = IF fetchEffectPending THEN 0 ELSE 1)
    /\ [](fetchStatus \in {"notIssued", "pending"} => isLoading)
    /\ [](fetchStatus = "rejected" => isLoading /\ fetchCount = 1)
    /\ [][/\ fetchCount' # fetchCount =>
               /\ fetchCount = 0
               /\ fetchCount' = 1
               /\ searchParams = InitialSearchParams
               /\ protocolData = InitialData
          /\ fetchStatus = "rejected" => fetchStatus' = "rejected"
          /\ isLoading' # isLoading =>
               /\ isLoading
               /\ fetchStatus = "fulfilled"
               /\ protocolData' = fetched]_vars
FetchOnceAndLoadingClearedBySuccessOnlyWitness ==
    /\ fetchStatus = "rejected"
    /\ isLoading
    /\ fetchCount = 1
    /\ lastBatch = 2
    /\ paramQueue = <<>>

----------------------------------------------------------------------------
(* Further properties of the exercise view, under Spec *)

\* C12: the solution can be viewed once only: after the solution view has
\* been shown and left again, the Answers button is never enabled again.
SolutionViewedOnce ==
    (solutionSeen /\ ~showSolutionButton) => ~AnswersEnabled

\* C13: once rendered, the attempt counter is the number of incorrect
\* submissions since the last correct submission or reveal click (or since
\* mount), also when several submissions were handled before the render.
TriesCountsIncorrectSubmissions ==
    Rendered => tries = incorrectSince

\* C14: an attempt counter above 2 implies the reveal flag, and in the code
\* view (showSolutionButton false) the reveal flag is true exactly when the
\* attempt counter is above 2.
RevealFlagFollowsTries ==
    /\ tries > 2 => solutionViewer
    /\ ~showSolutionButton => (solutionViewer <=> tries > 2)

\* C15: once rendered, showSolutionButton is the argument of the last
\* handleSolutionButtonClick call (false before any), and showSolutionButton
\* implies solutionViewer, also when a button was clicked twice before the
\* render.
ShowSolutionIsLastReveal ==
    Rendered => /\ showSolutionButton = lastReveal
                /\ showSolutionButton => solutionViewer

====
